---- MODULE Spec2Model ----
(***************************************************************************)
(* Beta-decay teaching simulation (src/main.cpp): the decay-event          *)
(* generator, the per-frame main loop (dt selection, input handling,       *)
(* lifecycle, integration with reflection and trail sampling), the         *)
(* derived quantities and the hover/tooltip resolution.                    *)
(*                                                                         *)
(* Number representation.  The program computes in 32-bit floats; the      *)
(* model computes in fixed point and rounds every product to the grid:     *)
(*   time      in units of 1/300 s   (1/60 s = 5, 0.02 s = 6, 3.0 s = 900) *)
(*   length    in units of 1/10 px   (arena 60..1040 px = 600..10400)      *)
(*   velocity  in units of 1/10 px/s (260 px/s = 2600)                     *)
(*   direction in units of 1/1000    (a unit vector has length 1000)       *)
(*   bias, u01 in units of 1/100     (0.85 = 85)                           *)
(***************************************************************************)
EXTENDS Integers, Sequences, FiniteSets, TLC

VARIABLES
    mode,          \* Mode mode                       (main.cpp:360)
    paused,        \* bool paused                     (main.cpp:361)
    stepOnce,      \* bool stepOnce                   (main.cpp:362)
    showHelp,      \* bool showHelp                   (main.cpp:363)
    leftHandBias,  \* float leftHandBias, hundredths  (main.cpp:365)
    current,       \* DecayEvent current              (main.cpp:366)
    t,             \* float t, accumulated sim time   (main.cpp:369)
    dt,            \* float dt of the running frame   (main.cpp:373)
    windowOpen,    \* window.isOpen()                 (main.cpp:371)
    pc,            \* position in the loop body: "top" | "poll"
    mouse,         \* pointer position read this frame (main.cpp:421)
    tip,           \* Tooltip tip of this frame       (main.cpp:420)
    lastKey,       \* history: the last input event polled in this frame
    genFlip,       \* history: flips at every assignment current = makeEvent(..)
    nkeys,         \* environment: number of input events delivered so far
    nframes        \* environment: number of frames started so far

vars == << mode, paused, stepOnce, showHelp, leftHandBias, current, t, dt,
           windowOpen, pc, mouse, tip, lastKey, genFlip, nkeys, nframes >>

----------------------------------------------------------------------------
(* Fixed-point scales *)

\* ticks per second: 1/60 s (the single step) is 5 ticks
TimeHz == 300
\* the length of a normalised direction (1.0)
UNIT == 1000

(* Program constants, in the units above *)

StepDt == 5
TrailInterval == 6
TrailCap == 70
Duration == 900
Speed == 2600
ElectronRadius == 80
AntinuRadius == 60
BiasInit == 85
BiasStep == 2
BiasMax == 99
BiasMin == 1
ArenaLeft == 600
ArenaTop == 600
ArenaWidth == 9800
ArenaHeight == 5800
OriginOffsetX == 1400
ProtonOffsetX == 400
NeutronHitR == 240
ProtonHitR == 200
ElectronHitR == 180
AntinuHitR == 160
SwirlBaseR == 220
SwirlPerL == 100
SwirlBand == 140
ArrowBand == 80
SpinOnlyArrowLen == 550
MomArrowLen == 600
SpinArrowLen == 480
SpinArrowOffset == 100
ClaimThreshold == 200000

SpinOnly == 1
SpinAndMotion == 2
FullConservation == 3
Modes == {SpinOnly, SpinAndMotion, FullConservation}

ArenaRight == ArenaLeft + ArenaWidth
ArenaBottom == ArenaTop + ArenaHeight
origin == << ArenaLeft + OriginOffsetX, ArenaTop + ArenaHeight \div 2 >>
protonPos == << origin[1] + ProtonOffsetX, origin[2] >>

----------------------------------------------------------------------------
(* Arithmetic helpers *)

Abs(x) == IF x < 0 THEN -x ELSE x
Min(a, b) == IF a < b THEN a ELSE b
Max(a, b) == IF a > b THEN a ELSE b

\* n / d rounded to the nearest grid value, symmetric in the sign of n
\* (float division and multiplication are sign-symmetric).
RoundDiv(n, d) ==
    IF n >= 0 THEN (2 * n + d) \div (2 * d)
    ELSE -((2 * (-n) + d) \div (2 * d))

\* Newton's iteration for floor(sqrt(n)), from a start x >= sqrt(n)
RECURSIVE SqrtNewton(_, _)
SqrtNewton(n, x) ==
    LET y == (x + n \div x) \div 2
    IN  IF y >= x THEN x ELSE SqrtNewton(n, y)

\* floor(sqrt(n)) for 0 <= n < 2^31
ISqrt(n) ==
    IF n <= 0 THEN 0
    ELSE SqrtNewton(n, IF n < 1050625 THEN 1025
                       ELSE IF n < 16000000 THEN 4000
                       ELSE 46340)

Neg(v) == << -v[1], -v[2] >>
VAdd(a, b) == << a[1] + b[1], a[2] + b[2] >>
VSub(a, b) == << a[1] - b[1], a[2] - b[2] >>
\* v * (num / den), each component rounded
VScale(v, num, den) == << RoundDiv(v[1] * num, den), RoundDiv(v[2] * num, den) >>

----------------------------------------------------------------------------
(* Vector math utilities *)

vlen(v) == ISqrt(v[1] * v[1] + v[2] * v[2])

\* The result is a direction (scale UNIT) whatever the scale of v.  The
\* guard l <= 1e-6f is below the grid's resolution: it is l = 0 here.
vnorm(v) ==
    LET l == vlen(v)
    IN  IF l <= 0 THEN << 0, 0 >>
        ELSE << RoundDiv(v[1] * UNIT, l), RoundDiv(v[2] * UNIT, l) >>

vdot(a, b) == a[1] * b[1] + a[2] * b[2]
vperp(v) == << -v[2], v[1] >>

dist2(a, b) ==
    LET dx == a[1] - b[1]
        dy == a[2] - b[2]
    IN  dx * dx + dy * dy

hitCircle(m, center, r) == dist2(m, center) <= r * r

\* t = dot / ab2 clamped to [0,1] is kept as the fraction tnum / ab2.
pointSegmentDistance(p, a, b) ==
    LET ab == VSub(b, a)
        ab2 == vdot(ab, ab)
    IN  IF ab2 <= 0 THEN vlen(VSub(p, a))
        ELSE LET tnum == Max(0, Min(ab2, vdot(VSub(p, a), ab)))
                 proj == VAdd(a, VScale(ab, tnum, ab2))
             IN  vlen(VSub(p, proj))

signf(x) == IF x >= 0 THEN 1 ELSE -1

helicitySign(spinDir, momDir) == signf(vdot(spinDir, momDir))

----------------------------------------------------------------------------
(* Decay event generator *)

\* (cos a, sin a) for jitter angles a in [-0.35, 0.35]: a = 0 and
\* a = +-atan(7/24) = +-0.2838, whose cosine and sine are exact on the grid.
AngleDirs == { << 1000, 0 >>, << 960, 280 >>, << 960, -280 >> }
\* values of u01(rng) in [0, 1), in hundredths
U01Draws == { 0, 50, 99 }
\* values of pm01(rng)
Pm01Draws == { 0, 1 }
\* one call's three draws, in the order the code makes them
Draws == AngleDirs \X U01Draws \X Pm01Draws
\* the argument of a step that calls no generator
NoDraw == << << 1000, 0 >>, 0, 0 >>

Particle(nm, p, v, s, r) ==
    [ name |-> nm, pos |-> p, vel |-> v, spinDir |-> s, radius |-> r,
      trail |-> << >>, trailTimer |-> 0 ]

SpinSign_ZeroNegative(p) == IF p.spinDir[2] > 0 THEN 1 ELSE -1

\* int sE = (spinDir.y >= 0.f) ? +1 : -1
SpinSign(p) == IF p.spinDir[2] >= 0 THEN 1 ELSE -1

L_neededOf_NoProton(ev) ==
    ev.neutronSpinSign - (SpinSign(ev.electron) + SpinSign(ev.antinu))

L_neededOf(ev) ==
    ev.neutronSpinSign - (ev.protonSpinSign + SpinSign(ev.electron) + SpinSign(ev.antinu))

SpinOnlyOverride_None(ev, md) == ev

SpinOnlyOverride_Always(ev, md) ==
    [ev EXCEPT !.antinu.spinDir = vnorm(Neg(ev.electron.spinDir))]

\* MODE 1 override of the antineutrino spin
SpinOnlyOverride(ev, md) ==
    IF md = SpinOnly
    THEN [ev EXCEPT !.antinu.spinDir = vnorm(Neg(ev.electron.spinDir))]
    ELSE ev

makeEvent_MirrorX(draw, org, bias, md) ==
    LET dirE == vnorm(draw[1])
        dirNu == vnorm(<< -dirE[1], dirE[2] >>)
        wantLeft == draw[2] < bias
        spinE == IF wantLeft THEN vnorm(Neg(dirE)) ELSE vnorm(dirE)
        spinNu == vnorm(dirNu)
        ev0 == [ electron |-> Particle("e-", org, VScale(dirE, Speed, UNIT), spinE, ElectronRadius),
                 antinu |-> Particle("anti-nu", org, VScale(dirNu, Speed, UNIT), spinNu, AntinuRadius),
                 protonSpinSign |-> IF draw[3] # 0 THEN 1 ELSE -1,
                 neutronSpinSign |-> 1,
                 L_needed |-> 0,
                 timeAlive |-> 0,
                 duration |-> Duration ]
        ev1 == SpinOnlyOverride(ev0, md)
    IN  [ev1 EXCEPT !.L_needed = L_neededOf(ev1)]

makeEvent(draw, org, bias, md) ==
    LET dirE == vnorm(draw[1])
        dirNu == vnorm(Neg(dirE))
        wantLeft == draw[2] < bias
        spinE == IF wantLeft THEN vnorm(Neg(dirE)) ELSE vnorm(dirE)
        spinNu == vnorm(dirNu)
        ev0 == [ electron |-> Particle("e-", org, VScale(dirE, Speed, UNIT), spinE, ElectronRadius),
                 antinu |-> Particle("anti-nu", org, VScale(dirNu, Speed, UNIT), spinNu, AntinuRadius),
                 protonSpinSign |-> IF draw[3] # 0 THEN 1 ELSE -1,
                 neutronSpinSign |-> 1,
                 L_needed |-> 0,
                 timeAlive |-> 0,
                 duration |-> Duration ]
        ev1 == SpinOnlyOverride(ev0, md)
    IN  [ev1 EXCEPT !.L_needed = L_neededOf(ev1)]

----------------------------------------------------------------------------
(* Particle integration *)

TrailPush_NoEvict(trail, p) == Append(trail, p)

\* push_back(pos); if (size() > 70) erase(begin())
TrailPush(trail, p) ==
    LET pushed == Append(trail, p)
    IN  IF Len(pushed) > TrailCap THEN Tail(pushed) ELSE pushed

ReflectAxis_LowOnly(x, v, lo, hi) ==
    << IF x < lo THEN lo ELSE x, IF x < lo THEN -v ELSE v >>

\* The two boundary tests of one axis, in the code's order:
\* << coordinate, velocity component >> after both.
ReflectAxis(x, v, lo, hi) ==
    LET x1 == IF x < lo THEN lo ELSE x
        v1 == IF x < lo THEN -v ELSE v
        x2 == IF x1 > hi THEN hi ELSE x1
        v2 == IF x1 > hi THEN -v1 ELSE v1
    IN  << x2, v2 >>

stepParticle(p, d) ==
    IF d <= 0 THEN p
    ELSE LET pos1 == VAdd(p.pos, VScale(p.vel, d, TimeHz))
             timer1 == p.trailTimer + d
             sample == timer1 >= TrailInterval
             rx == ReflectAxis(pos1[1], p.vel[1], ArenaLeft + p.radius, ArenaRight - p.radius)
             ry == ReflectAxis(pos1[2], p.vel[2], ArenaTop + p.radius, ArenaBottom - p.radius)
         IN  [ p EXCEPT !.pos = << rx[1], ry[1] >>,
                        !.vel = << rx[2], ry[2] >>,
                        !.trailTimer = IF sample THEN 0 ELSE timer1,
                        !.trail = IF sample THEN TrailPush(p.trail, pos1) ELSE p.trail,
                        !.spinDir = vnorm(p.spinDir) ]

\* stepParticle(current.electron); stepParticle(current.antinu);
stepBoth(ev, d) ==
    [ev EXCEPT !.electron = stepParticle(@, d), !.antinu = stepParticle(@, d)]

Lifecycle_StrictlyAfter(ev, d, draw, bias, md) ==
    IF d > 0
    THEN LET aged == [ev EXCEPT !.timeAlive = @ + d]
         IN  IF aged.timeAlive > aged.duration
             THEN makeEvent(draw, origin, bias, md)
             ELSE aged
    ELSE ev

\* timeAlive += dt; respawn at duration (draw: the draws a respawn would make)
Lifecycle(ev, d, draw, bias, md) ==
    IF d > 0
    THEN LET aged == [ev EXCEPT !.timeAlive = @ + d]
         IN  IF aged.timeAlive >= aged.duration
             THEN makeEvent(draw, origin, bias, md)
             ELSE aged
    ELSE ev

Expires(ev, d) == d > 0 /\ ev.timeAlive + d >= ev.duration

----------------------------------------------------------------------------
(* Derived quantities of a frame *)

spinDot(ev) == vdot(vnorm(ev.electron.spinDir), vnorm(ev.antinu.spinDir))
claimLooksTrue(ev) == spinDot(ev) < -ClaimThreshold
hE(ev) == helicitySign(vnorm(ev.electron.spinDir), vnorm(ev.electron.vel))
hN(ev) == helicitySign(vnorm(ev.antinu.spinDir), vnorm(ev.antinu.vel))

----------------------------------------------------------------------------
(* Hover: annotated segments and tooltip resolution *)

Seg(a, b, kind) == [ a |-> a, b |-> b, kind |-> kind ]  \* kind 0 momentum, 1 spin

\* the segments one particle's arrows register, in drawing order
drawVectors(p, md) ==
    LET momDir == vnorm(p.vel)
        spinDir == vnorm(p.spinDir)
    IN  IF md = SpinOnly
        THEN << Seg(p.pos, VAdd(p.pos, VScale(spinDir, SpinOnlyArrowLen, UNIT)), 1) >>
        ELSE LET off == VScale(vperp(momDir), SpinArrowOffset, UNIT)
                 sa == VAdd(p.pos, off)
             IN  << Seg(p.pos, VAdd(p.pos, VScale(momDir, MomArrowLen, UNIT)), 0),
                    Seg(sa, VAdd(sa, VScale(spinDir, SpinArrowLen, UNIT)), 1) >>

segsOf(ev, md) == drawVectors(ev.electron, md) \o drawVectors(ev.antinu, md)

NoTip == [ active |-> FALSE, title |-> "", body |-> "" ]
Tip(title, body) == [ active |-> TRUE, title |-> title, body |-> body ]

TipNeutron == Tip("Neutron", "This is the neutron before it breaks.")
TipProton == Tip("Proton", "This is the proton after the break.")
TipElectron == Tip("Electron (e-)", "This is the electron.")
TipAntinu == Tip("Anti-neutrino", "This is the anti-neutrino.")
TipMom == Tip("Momentum arrow", "This arrow means: Which way is this thing moving?")
TipSpin == Tip("Spin arrow", "This arrow means: Which way is this thing spinning?")
TipSwirl == Tip("Swirl (extra angular momentum)", "This swirl means: Something is missing if you only count spins.")

\* Hover: dots
hoverDots(m, ev) ==
    IF hitCircle(m, origin, NeutronHitR) THEN TipNeutron
    ELSE IF hitCircle(m, protonPos, ProtonHitR) THEN TipProton
    ELSE IF hitCircle(m, ev.electron.pos, ElectronHitR) THEN TipElectron
    ELSE IF hitCircle(m, ev.antinu.pos, AntinuHitR) THEN TipAntinu
    ELSE NoTip

swirlHit(m, ev) ==
    LET d == vlen(VSub(m, origin))
        targetR == SwirlBaseR + Abs(ev.L_needed) * SwirlPerL
    IN  Abs(d - targetR) < SwirlBand

\* Hover: swirl (Mode 3 only)
hoverSwirl(tp, m, ev, md) ==
    IF ~tp.active /\ md = FullConservation /\ swirlHit(m, ev) THEN TipSwirl ELSE tp

segHit(m, s) == pointSegmentDistance(m, s.a, s.b) < ArrowBand

hoverArrows_Override(tp, m, segs) ==
    IF \E i \in 1..Len(segs) : segHit(m, segs[i])
    THEN LET i == CHOOSE j \in 1..Len(segs) :
                      segHit(m, segs[j]) /\ \A k \in 1..(j - 1) : ~segHit(m, segs[k])
         IN  IF segs[i].kind = 0 THEN TipMom ELSE TipSpin
    ELSE tp

\* Hover: arrows (first segment in drawing order, then break)
hoverArrows(tp, m, segs) ==
    IF ~tp.active /\ \E i \in 1..Len(segs) : segHit(m, segs[i])
    THEN LET i == CHOOSE j \in 1..Len(segs) :
                      segHit(m, segs[j]) /\ \A k \in 1..(j - 1) : ~segHit(m, segs[k])
         IN  IF segs[i].kind = 0 THEN TipMom ELSE TipSpin
    ELSE tp

resolveTip(m, ev, md) ==
    hoverArrows(hoverSwirl(hoverDots(m, ev), m, ev, md), m, segsOf(ev, md))

----------------------------------------------------------------------------
(* Control state machine *)

KeyCodes == { "Num1", "Num2", "Num3", "Space", "Up", "Down", "P", "N", "H", "Other" }

RegenKeys_AlsoPause == { "Num1", "Num2", "Num3", "Space", "Up", "Down", "P" }

\* the keys whose handler assigns current = makeEvent(...)
RegenKeys == { "Num1", "Num2", "Num3", "Space", "Up", "Down" }

modeAfterKey(code, md) ==
    IF code = "Num1" THEN SpinOnly
    ELSE IF code = "Num2" THEN SpinAndMotion
    ELSE IF code = "Num3" THEN FullConservation
    ELSE md

biasDown_Unclamped(b) == b - BiasStep

biasUp(b) == Min(BiasMax, b + BiasStep)
biasDown(b) == Max(BiasMin, b - BiasStep)

biasAfterKey(code, b) ==
    IF code = "Up" THEN biasUp(b)
    ELSE IF code = "Down" THEN biasDown(b)
    ELSE b

pausedAfterKey(code, p) == IF code = "P" THEN ~p ELSE p
stepOnceAfterKey(code, p, s) == IF code = "N" /\ p THEN TRUE ELSE s
showHelpAfterKey(code, h) == IF code = "H" THEN ~h ELSE h

frameDt_PauseIgnored(p, s, dtReal) ==
    IF p /\ s THEN StepDt ELSE dtReal

\* dt of a frame: wall-clock delta, 0 while paused, 1/60 s for a single step
frameDt(p, s, dtReal) ==
    IF p THEN (IF s THEN StepDt ELSE 0) ELSE dtReal

stepOnceAfterDt_Kept(p, s) == s

\* stepOnce after the dt selection
stepOnceAfterDt(p, s) == IF p THEN FALSE ELSE s

InitWith(draws) ==
    /\ mode = SpinOnly
    /\ paused = FALSE
    /\ stepOnce = FALSE
    /\ showHelp = TRUE
    /\ leftHandBias = BiasInit
    /\ \E d \in draws : current = makeEvent(d, origin, BiasInit, SpinOnly)
    /\ t = 0
    /\ dt = 0
    /\ windowOpen = TRUE
    /\ pc = "top"
    /\ mouse = << 0, 0 >>
    /\ tip = NoTip
    /\ lastKey = "none"
    /\ genFlip = FALSE
    /\ nkeys = 0
    /\ nframes = 0

Init == InitWith(Draws)

\* while (window.isOpen()) { dtReal = clock.restart(); dt selection; t += dt;
BeginFrame(dtReal) ==
    /\ pc = "top"
    /\ windowOpen
    /\ dt' = frameDt(paused, stepOnce, dtReal)
    /\ stepOnce' = stepOnceAfterDt(paused, stepOnce)
    /\ t' = t + dt'
    /\ pc' = "poll"
    /\ UNCHANGED << mode, paused, showHelp, leftHandBias, current, windowOpen,
                    mouse, tip, lastKey, genFlip >>

\* one iteration of while (auto ev = window.pollEvent()) for a key press
\* (code "Other": any event no branch handles)
KeyPressed(code, draw) ==
    /\ pc = "poll"
    /\ windowOpen
    /\ mode' = modeAfterKey(code, mode)
    /\ leftHandBias' = biasAfterKey(code, leftHandBias)
    /\ current' = IF code \in RegenKeys
                  THEN makeEvent(draw, origin, leftHandBias', mode')
                  ELSE current
    /\ genFlip' = IF code \in RegenKeys THEN ~genFlip ELSE genFlip
    /\ paused' = pausedAfterKey(code, paused)
    /\ stepOnce' = stepOnceAfterKey(code, paused, stepOnce)
    /\ showHelp' = showHelpAfterKey(code, showHelp)
    /\ lastKey' = code
    /\ UNCHANGED << t, dt, windowOpen, pc, mouse, tip >>

\* if (ev->is<sf::Event::Closed>()) window.close();
CloseRequested ==
    /\ pc = "poll"
    /\ windowOpen
    /\ windowOpen' = FALSE
    /\ lastKey' = "Closed"
    /\ UNCHANGED << mode, paused, stepOnce, showHelp, leftHandBias, current, t, dt,
                    pc, mouse, tip, genFlip >>

\* the rest of the loop body once pollEvent() returns nothing: the pointer is
\* read, timeAlive advances (with auto-respawn), both particles are stepped
\* and the hover tooltip is resolved
UpdateFrame(m, draw) ==
    /\ pc = "poll"
    /\ LET ev1 == Lifecycle(current, dt, draw, leftHandBias, mode)
           ev2 == stepBoth(ev1, dt)
       IN  /\ current' = ev2
           /\ tip' = resolveTip(m, ev2, mode)
    /\ genFlip' = IF Expires(current, dt) THEN ~genFlip ELSE genFlip
    /\ mouse' = m
    /\ pc' = "top"
    /\ lastKey' = "none"
    /\ UNCHANGED << mode, paused, stepOnce, showHelp, leftHandBias, t, dt,
                    windowOpen >>

----------------------------------------------------------------------------
(* Steps of the loop *)

\* the loop passes from its top to the polling of input: dt is selected
FrameStart == pc = "top" /\ pc' = "poll"
\* one input event is polled, and lastKey' is that event
InputStep == pc = "poll" /\ pc' = "poll"
\* polling is over: the rest of the loop body runs
FrameEnd == pc = "poll" /\ pc' = "top"

----------------------------------------------------------------------------
(* Environments: which inputs arrive, and how many *)

\* the draws a step can consume: those of its makeEvent call, if it makes one
KeyDraws(c, draws) == IF c \in RegenKeys THEN draws ELSE { NoDraw }
TickDraws(draws) == IF Expires(current, dt) THEN draws ELSE { NoDraw }

\* The loop under an environment: the wall-clock frame times, the input
\* events, the generator's draws and the pointer positions that can occur,
\* and how many frames and input events a run holds.
EnvBegin(dts, maxFrames) ==
    \E d \in dts :
        nframes < maxFrames /\ BeginFrame(d) /\ nframes' = nframes + 1 /\ UNCHANGED nkeys

EnvKey(keys, draws, maxKeys) ==
    \E c \in keys : \E dr \in KeyDraws(c, draws) :
        nkeys < maxKeys /\ KeyPressed(c, dr) /\ nkeys' = nkeys + 1 /\ UNCHANGED nframes

EnvClose(maxKeys) ==
    nkeys < maxKeys /\ CloseRequested /\ nkeys' = nkeys + 1 /\ UNCHANGED nframes

EnvEnd(mice, draws) ==
    \E m \in mice : \E dr \in TickDraws(draws) :
        UpdateFrame(m, dr) /\ UNCHANGED << nkeys, nframes >>

LoopStep(dts, keys, draws, mice, maxFrames, maxKeys) ==
    \/ EnvBegin(dts, maxFrames)
    \/ EnvKey(keys, draws, maxKeys)
    \/ EnvClose(maxKeys)
    \/ EnvEnd(mice, draws)

\* input events the environment delivers without counting them
FreeKeys(keys, draws) ==
    \E c \in keys : \E dr \in KeyDraws(c, draws) :
        KeyPressed(c, dr) /\ UNCHANGED << nkeys, nframes >>

\* a pointer far from everything
MouseAway == << 0, 0 >>

\* Control: every input event; frame times 0.02 s and a 10 s stall.
DtReals == { 6, 3000 }
CtlDraws == { << << 960, 280 >>, 0, 1 >>, << << 960, -280 >>, 99, 0 >> }
MaxFrames == 3
MaxKeys == 3

Next == LoopStep(DtReals, KeyCodes, CtlDraws, { MouseAway }, MaxFrames, MaxKeys)
Spec == InitWith(CtlDraws) /\ [][Next]_vars

\* Bias: any number of bias-up and bias-down events, few others.
BiasKeys == { "Up", "Down" }
BiasDts == { 6, 3000 }
BiasDraws == { << << 1000, 0 >>, 50, 1 >> }
MaxFramesBias == 2
MaxKeysBias == 1

NextBias ==
    \/ LoopStep(BiasDts, KeyCodes \ BiasKeys, BiasDraws, { MouseAway }, MaxFramesBias, MaxKeysBias)
    \/ FreeKeys(BiasKeys, BiasDraws)
SpecBias == InitWith(BiasDraws) /\ [][NextBias]_vars

\* Generation and lifecycle: every outcome of the generator's draws, the
\* mode-select, new-decay and pause inputs; frame times of 1.5 s and a 10 s
\* stall.  The loop waits for nothing but the frame pacing: a frame that can
\* begin does begin, and a frame whose polling is over (pollEvent() does not
\* block) runs to its end.
GenDts == { 450, 3000 }
MaxFramesGen == 2
MaxKeysGen == 2

GenDraws == AngleDirs \X { 0, 99 } \X Pm01Draws
GenKeys == { "Num1", "Num2", "Num3", "Space", "P" }
NextGen == LoopStep(GenDts, GenKeys, GenDraws, { MouseAway }, MaxFramesGen, MaxKeysGen)
SpecGen ==
    /\ InitWith(GenDraws)
    /\ [][NextGen]_vars
    /\ WF_vars(EnvBegin(GenDts, MaxFramesGen))
    /\ WF_pc(FrameEnd)

\* Trails: the first MaxShortFrames frames last half a sampling interval or
\* one, and inputs (MaxKeysTrail at most) arrive during them; from then on
\* the loop runs steadily at one sampling interval per frame, past the
\* filling of the trails and past the expiry of the event.
MaxShortFrames == 2
MaxExtraFrames == 4
MaxKeysTrail == 2
MaxFramesTrail == Duration \div TrailInterval + MaxShortFrames + MaxExtraFrames
TrailDts == IF nframes < MaxShortFrames THEN { 3, TrailInterval } ELSE { TrailInterval }
TrailKeys == IF nframes <= MaxShortFrames THEN { "Space", "P", "N" } ELSE { }
TrailDraws == { << << 960, 280 >>, 0, 1 >> }
NextTrail == LoopStep(TrailDts, TrailKeys, TrailDraws, { MouseAway }, MaxFramesTrail, MaxKeysTrail)
SpecTrail == InitWith(TrailDraws) /\ [][NextTrail]_vars

\* Hovering: the pointer rests on the neutron, on the proton, where the
\* electron is and where the antineutrino is after 1.5 s, on the swirl ring
\* of an event with L_needed = -2, between the electron's two arrows and
\* beside its spin arrow after 1.5 s, on the antineutrino's momentum arrow
\* (inside that swirl ring) after 0.02 s, or away from everything; the mode
\* keys select what is drawn.
MaxFramesHover == 2
MaxKeysHover == 1
OnNeutron == << 2100, 3500 >>
OnProton == << 2450, 3500 >>
OnElectron == << 5900, 3500 >>
OnAntinu == << 660, 3500 >>
OnSwirl == << 2000, 3100 >>
OnArrows == << 6200, 3550 >>
OnSpinArrow == << 6200, 3650 >>
OnLeftArrow == << 1600, 3500 >>
HoverMice ==
    { MouseAway, OnNeutron, OnProton, OnElectron, OnAntinu, OnSwirl, OnArrows,
      OnSpinArrow, OnLeftArrow }
HoverDts == { TrailInterval, 450 }
HoverKeys == { "Num1", "Num2", "Num3" }
HoverDraws == { << 1000, 0 >> } \X { 0, 99 } \X Pm01Draws
NextHover == LoopStep(HoverDts, HoverKeys, HoverDraws, HoverMice, MaxFramesHover, MaxKeysHover)
SpecHover == InitWith(HoverDraws) /\ [][NextHover]_vars

----------------------------------------------------------------------------
(* What the properties below speak of *)

ReplacingInputs == { "Num1", "Num2", "Num3", "Space", "Up", "Down" }
OtherInputs == { "P", "N", "H", "Other" }

\* what the generator returns, before any tick
IsFresh(ev) ==
    /\ ev.timeAlive = 0
    /\ \A p \in { ev.electron, ev.antinu } :
          p.pos = origin /\ p.trail = << >> /\ p.trailTimer = 0

----------------------------------------------------------------------------
(* C1 *)

SingleStepFrame ==
    /\ (FrameStart /\ paused /\ stepOnce) =>
          dt' = StepDt /\ t' = t + StepDt /\ ~stepOnce' /\ paused'
    /\ (FrameStart /\ paused /\ ~stepOnce) =>
          dt' = 0 /\ t' = t /\ ~stepOnce' /\ paused'
    /\ (InputStep /\ lastKey' = "N" /\ paused) => stepOnce' /\ paused'
    /\ (~stepOnce /\ stepOnce') => InputStep /\ lastKey' = "N" /\ paused
    /\ (InputStep /\ lastKey' = "P") => paused' = ~paused
    /\ (paused' # paused) => InputStep /\ lastKey' = "P"
    /\ ~FrameStart => dt' = dt /\ t' = t
    /\ (FrameEnd /\ dt = StepDt /\ ~Expires(current, dt)) =>
          current'.timeAlive = current.timeAlive + StepDt

\* C1: once paused with one single-step request pending, the next frame
\* runs with dt = 1/60 s (t grows by exactly that), clears the request and
\* stays paused; a paused frame with no request pending has dt = 0; a
\* request is only taken from a single-step input while paused, pause only
\* changes by a pause-toggle, and dt and t only change at the frame's start.
C1_SingleStep == [][SingleStepFrame]_vars

\* a frame of 0.02 s took the pause and the step request, the next frame was
\* the 1/60 s step, and the frame after it runs with dt = 0, still paused
C1_Witness ==
    /\ pc = "poll" /\ nframes = 3 /\ nkeys = 2
    /\ t = 6 + StepDt /\ dt = 0 /\ paused /\ ~stepOnce
    /\ current.timeAlive = 6 + StepDt

----------------------------------------------------------------------------
(* C2 *)

PausedFrameNoOp ==
    /\ (FrameStart /\ paused /\ ~stepOnce) =>
          dt' = 0 /\ t' = t /\ current' = current /\ genFlip' = genFlip
    /\ (InputStep /\ dt = 0 /\ lastKey' \notin ReplacingInputs) =>
          dt' = 0 /\ t' = t /\ current' = current /\ genFlip' = genFlip
    /\ (FrameEnd /\ dt = 0) =>
          t' = t /\ current' = current /\ genFlip' = genFlip

\* C2: a frame that starts paused with no step pending has dt = 0, and
\* every step of a frame with dt = 0, other than the polling of a
\* regenerating input, leaves t and the whole live event (timeAlive, both
\* particles with position, velocity, spin, trail and trail timer,
\* L_needed) unchanged and replaces nothing.
C2_PausedNoOp == [][PausedFrameNoOp]_vars

\* a paused frame has run to its end over an event in mid-life and in motion
C2_Witness ==
    /\ pc = "top" /\ paused /\ dt = 0 /\ nframes >= 2
    /\ current.timeAlive > 0
    /\ current.electron.pos # origin
    /\ current.electron.trail # << >>

----------------------------------------------------------------------------
(* C3 *)

ReplacedIff ==
    /\ (genFlip' # genFlip) <=>
          \/ InputStep /\ lastKey' \in ReplacingInputs
          \/ FrameEnd /\ dt > 0 /\ current.timeAlive + dt >= current.duration
    /\ (InputStep /\ genFlip' # genFlip) => IsFresh(current')
    /\ (InputStep /\ genFlip' = genFlip) => current' = current
    /\ (FrameEnd /\ dt > 0 /\ genFlip' = genFlip) =>
          current'.timeAlive = current.timeAlive + dt
    /\ (InputStep /\ lastKey' \in OtherInputs) =>
          current' = current /\ mode' = mode /\ leftHandBias' = leftHandBias
    /\ FrameStart => current' = current /\ genFlip' = genFlip

\* C3: the live event is replaced in a step exactly when the step polls a
\* mode-select, new-decay, bias-up or bias-down input (whatever timeAlive,
\* paused and the clamping of the bias) or is the tick with dt > 0 that
\* brings timeAlive to duration; pause-toggle, single-step, help-toggle and
\* unrecognized inputs leave the event, Mode and leftHandBias unchanged.
C3_ReplacedIff == [][ReplacedIff]_vars

\* while paused, in the second frame, bias-up inputs have been polled up to
\* and at the upper clamp (an even number of bias inputs cannot end at 0.99
\* unclamped), and the last one has left a fresh event
C3_Witness ==
    /\ pc = "poll" /\ lastKey = "Up" /\ leftHandBias = BiasMax
    /\ genFlip = FALSE /\ nframes = 2 /\ nkeys = 1 /\ paused /\ dt = 0
    /\ IsFresh(current)

----------------------------------------------------------------------------
(* C5 *)

BiasSteps ==
    /\ (InputStep /\ lastKey' = "Up") =>
          leftHandBias' = (IF leftHandBias + BiasStep > BiasMax THEN BiasMax
                           ELSE leftHandBias + BiasStep)
    /\ (InputStep /\ lastKey' = "Down") =>
          leftHandBias' = (IF leftHandBias - BiasStep < BiasMin THEN BiasMin
                           ELSE leftHandBias - BiasStep)
    /\ (InputStep /\ lastKey' \in BiasKeys) => windowOpen' /\ pc' = "poll"
    /\ ~(InputStep /\ lastKey' \in BiasKeys) => leftHandBias' = leftHandBias

\* C5: leftHandBias starts at 0.85 and stays in [0.01, 0.99]; bias-up sets
\* it to min(0.99, bias + 0.02), bias-down to max(0.01, bias - 0.02), the
\* loop going on as after any input; no other step changes it.
C5_BiasClamped ==
    /\ leftHandBias = BiasInit
    /\ [](leftHandBias \in BiasMin..BiasMax)
    /\ [][BiasSteps]_vars

\* the bias has been driven down to the lower clamp and a bias-down was
\* polled there (an odd number of bias inputs cannot end at 0.01 unclamped)
C5_Witness ==
    /\ pc = "poll" /\ lastKey = "Down" /\ leftHandBias = BiasMin
    /\ genFlip = TRUE /\ nkeys = 0 /\ nframes = 1

----------------------------------------------------------------------------
(* C4 *)

ExpiryTick ==
    /\ (FrameEnd /\ dt > 0 /\ current.timeAlive + dt < Duration) =>
          current'.timeAlive = current.timeAlive + dt /\ genFlip' = genFlip
    /\ (FrameEnd /\ dt > 0 /\ current.timeAlive + dt >= Duration) =>
          /\ genFlip' # genFlip
          /\ current'.timeAlive = 0
          /\ \E d \in Draws :
                current' = stepBoth(makeEvent(d, origin, leftHandBias, mode), dt)
    /\ (FrameStart /\ ~paused) => dt' > 0

TimeAliveInRange ==
    /\ current.duration = Duration
    /\ 0 <= current.timeAlive
    /\ current.timeAlive < current.duration

\* With two more frames to come, each of 1.5 s at least unless paused, the
\* event now live is replaced, or the simulation is paused or closed.
EventuallyReplaced ==
    \A g \in BOOLEAN :
        [](genFlip = g /\ nframes + 2 <= MaxFramesGen
              => <>(genFlip # g \/ paused \/ ~windowOpen))

\* C4: a tick with dt > 0 adds dt to timeAlive and, when that reaches
\* duration (3.0 s), replaces the event in the same tick by one generated
\* at the origin with the current bias and mode, whose timeAlive is 0; so
\* 0 <= timeAlive < duration in every state, and an event is eventually
\* replaced while frames with dt > 0 keep coming.
C4_Expiry ==
    /\ []TimeAliveInRange
    /\ [][ExpiryTick]_vars
    /\ EventuallyReplaced

\* two frames of 1.5 s and no input: the second tick brought timeAlive to
\* exactly 3.0 s and replaced the event
C4_Witness ==
    /\ pc = "top" /\ nkeys = 0 /\ nframes = 2 /\ t = Duration /\ dt * 2 = Duration
    /\ genFlip = TRUE /\ current.timeAlive = 0
    /\ current.electron.pos # origin

----------------------------------------------------------------------------
(* C6 *)

SpinsOpposed ==
    mode = SpinOnly =>
        /\ current.antinu.spinDir = << -current.electron.spinDir[1], -current.electron.spinDir[2] >>
        /\ spinDot(current) = -(UNIT * UNIT)
        /\ claimLooksTrue(current)

SpinKept ==
    genFlip' = genFlip =>
        /\ current'.electron.spinDir = current.electron.spinDir
        /\ current'.antinu.spinDir = current.antinu.spinDir

\* C6: while Mode is SpinOnly the antineutrino's spin direction is the
\* exact negation of the electron's, so spinDot is -1 and claimLooksTrue
\* holds, whichever helicity was drawn; spin directions only change when
\* the event is replaced.
C6_SpinOnlyOpposed == []SpinsOpposed /\ [][SpinKept]_vars

\* back in SpinOnly after another mode, a left-handed electron (spin against
\* its momentum, which alone would leave both spins parallel), one tick on
C6_Witness ==
    /\ mode = SpinOnly /\ nkeys = 2 /\ pc = "top" /\ dt > 0
    /\ current.timeAlive > 0
    /\ current.electron.spinDir = Neg(vnorm(current.electron.vel))
    /\ current.electron.spinDir[2] # 0

----------------------------------------------------------------------------
(* C7 *)

Sign0Pos(x) == IF x < 0 THEN -1 ELSE 1

DeficitFormula ==
    /\ current.neutronSpinSign = 1
    /\ current.protonSpinSign \in { 1, -1 }
    /\ current.L_needed =
          1 - (current.protonSpinSign + Sign0Pos(current.electron.spinDir[2])
                 + Sign0Pos(current.antinu.spinDir[2]))

DeficitKept ==
    genFlip' = genFlip =>
        /\ current'.L_needed = current.L_needed
        /\ current'.protonSpinSign = current.protonSpinSign
        /\ current'.neutronSpinSign = current.neutronSpinSign

\* C7: L_needed is neutronSpinSign - (protonSpinSign + sign(electron spin y)
\* + sign(antineutrino spin y)) with neutronSpinSign = +1 and sign(0) = +1,
\* over the spin directions the event holds (those after the SpinOnly
\* override), and it only changes when the event is replaced.
C7_OrbitalDeficit == []DeficitFormula /\ [][DeficitKept]_vars

\* FullConservation, proton +1, both spin y-signs +1: L_needed = -2, still
\* so after a tick in which the antineutrino was reflected off the left wall
C7_Witness ==
    /\ mode = FullConservation /\ pc = "top" /\ dt > 0
    /\ current.timeAlive > 0
    /\ current.protonSpinSign = 1
    /\ current.electron.spinDir[2] > 0 /\ current.antinu.spinDir[2] > 0
    /\ current.L_needed = -2
    /\ current.antinu.vel[1] > 0

----------------------------------------------------------------------------
(* C9 *)

InArena(p) ==
    /\ ArenaLeft + p.radius <= p.pos[1] /\ p.pos[1] <= ArenaRight - p.radius
    /\ ArenaTop + p.radius <= p.pos[2] /\ p.pos[2] <= ArenaBottom - p.radius

\* one axis of one integration step: from coordinate x0 with velocity v0 to
\* coordinate x1 with velocity v1
AxisRule(x0, v0, x1, v1, lo, hi, d) ==
    LET raw == x0 + RoundDiv(v0 * d, TimeHz)
    IN  IF raw < lo THEN x1 = lo /\ v1 = -v0
        ELSE IF raw > hi THEN x1 = hi /\ v1 = -v0
        ELSE x1 = raw /\ v1 = v0

Reflected(p0, p1, d) ==
    /\ AxisRule(p0.pos[1], p0.vel[1], p1.pos[1], p1.vel[1],
                ArenaLeft + p0.radius, ArenaRight - p0.radius, d)
    /\ AxisRule(p0.pos[2], p0.vel[2], p1.pos[2], p1.vel[2],
                ArenaTop + p0.radius, ArenaBottom - p0.radius, d)

IntegrationStep ==
    (FrameEnd /\ dt > 0) =>
        /\ InArena(current'.electron) /\ InArena(current'.antinu)
        /\ IF genFlip' = genFlip
           THEN /\ Reflected(current.electron, current'.electron, dt)
                /\ Reflected(current.antinu, current'.antinu, dt)
           ELSE \E d \in Draws :
                   LET ev == makeEvent(d, origin, leftHandBias, mode)
                   IN  /\ Reflected(ev.electron, current'.electron, dt)
                       /\ Reflected(ev.antinu, current'.antinu, dt)

\* C9: after every integration step with dt > 0, the respawn tick included,
\* both particles lie in [left+radius, right-radius] x [top+radius,
\* bottom-radius]; per axis, a coordinate that left the range is set to the
\* boundary and that axis's velocity component negated, else both are kept.
C9_InArena ==
    /\ [](InArena(current.electron) /\ InArena(current.antinu))
    /\ [][IntegrationStep]_vars

\* a 10 s stall: the electron ends in the bottom right corner, clamped and
\* reflected on both axes, the antineutrino in the top left one
C9_Witness ==
    /\ pc = "top" /\ dt > Duration
    /\ current.electron.pos = << ArenaRight - ElectronRadius, ArenaBottom - ElectronRadius >>
    /\ current.electron.vel[1] < 0 /\ current.electron.vel[2] < 0
    /\ current.antinu.pos = << ArenaLeft + AntinuRadius, ArenaTop + AntinuRadius >>
    /\ current.antinu.vel[1] > 0 /\ current.antinu.vel[2] > 0

----------------------------------------------------------------------------
(* C8 *)

TrailBounded(p) ==
    /\ Len(p.trail) <= TrailCap
    /\ 0 <= p.trailTimer /\ p.trailTimer < TrailInterval

\* the trail after one more sample: all of the old trail, less its oldest
\* sample if it was full, in the old order, and one sample after them
SampleAppended(old, new) ==
    LET kept == IF Len(old) >= TrailCap THEN Tail(old) ELSE old
    IN  /\ Len(new) = Len(kept) + 1
        /\ SubSeq(new, 1, Len(kept)) = kept

\* one tick of length d > 0 on a particle whose trail was old and whose
\* trail timer was timer
TrailTick(old, timer, p1, d) ==
    IF timer + d >= TrailInterval
    THEN p1.trailTimer = 0 /\ SampleAppended(old, p1.trail)
    ELSE p1.trailTimer = timer + d /\ p1.trail = old

TrailRule(p0, p1) ==
    /\ (FrameEnd /\ dt > 0 /\ genFlip' = genFlip) =>
           TrailTick(p0.trail, p0.trailTimer, p1, dt)
    /\ (FrameEnd /\ dt > 0 /\ genFlip' # genFlip) =>
           TrailTick(<< >>, 0, p1, dt)
    /\ (~FrameEnd /\ genFlip' # genFlip) =>
           p1.trail = << >> /\ p1.trailTimer = 0
    /\ ((~FrameEnd \/ dt = 0) /\ genFlip' = genFlip) =>
           p1.trail = p0.trail /\ p1.trailTimer = p0.trailTimer

TrailSteps ==
    /\ TrailRule(current.electron, current'.electron)
    /\ TrailRule(current.antinu, current'.antinu)

\* C8: each particle's trail holds at most 70 samples, oldest first; a
\* sample is appended exactly in the ticks where the trail timer plus dt
\* reaches 0.02 s, and the timer is then 0; an append to a full trail evicts
\* exactly the oldest sample; a generated event starts with an empty trail
\* and a zero timer.
C8_TrailFifo ==
    /\ [](TrailBounded(current.electron) /\ TrailBounded(current.antinu))
    /\ [][TrailSteps]_vars

\* every frame so far lasted one sampling interval, there were more of them
\* than a trail holds, and the event was never replaced: both trails are
\* full and have lost their first samples
C8_Witness ==
    /\ pc = "top" /\ nkeys = 0 /\ genFlip = FALSE
    /\ nframes >= TrailCap + 2 /\ t = nframes * TrailInterval
    /\ current.timeAlive = t
    /\ Len(current.electron.trail) = TrailCap
    /\ Len(current.antinu.trail) = TrailCap
    /\ current.electron.trail[1] # current.electron.trail[TrailCap]

----------------------------------------------------------------------------
(* C10 *)

InDisc(c, r) ==
    (mouse[1] - c[1]) * (mouse[1] - c[1]) + (mouse[2] - c[2]) * (mouse[2] - c[2]) <= r * r

OverNeutron == InDisc(origin, NeutronHitR)
OverProton == InDisc(protonPos, ProtonHitR)
OverElectron == InDisc(current.electron.pos, ElectronHitR)
OverAntinu == InDisc(current.antinu.pos, AntinuHitR)
OverDot == OverNeutron \/ OverProton \/ OverElectron \/ OverAntinu
OverSwirl ==
    /\ mode = FullConservation
    /\ Abs(vlen(VSub(mouse, origin)) - (SwirlBaseR + SwirlPerL * Abs(current.L_needed)))
          < SwirlBand
NearArrow(i) ==
    LET sg == segsOf(current, mode)[i]
    IN  pointSegmentDistance(mouse, sg.a, sg.b) < ArrowBand
ArrowCount == Len(segsOf(current, mode))

\* the frame's tooltip exists once the frame's loop body has run
TipResolved == pc = "top" /\ nframes > 0

HoverPriority ==
    TipResolved =>
        /\ OverNeutron => tip = TipNeutron
        /\ (~OverNeutron /\ OverProton) => tip = TipProton
        /\ (~OverNeutron /\ ~OverProton /\ OverElectron) => tip = TipElectron
        /\ (~OverNeutron /\ ~OverProton /\ ~OverElectron /\ OverAntinu) => tip = TipAntinu
        /\ (~OverDot /\ OverSwirl) => tip = TipSwirl
        /\ \A i \in 1..ArrowCount :
              (~OverDot /\ ~OverSwirl /\ NearArrow(i) /\ \A k \in 1..(i - 1) : ~NearArrow(k))
                 => tip = IF segsOf(current, mode)[i].kind = 0 THEN TipMom ELSE TipSpin
        /\ (~OverDot /\ ~OverSwirl /\ \A i \in 1..ArrowCount : ~NearArrow(i))
              => tip = NoTip
        /\ tip.active => tip.title # "" /\ tip.body # ""
        /\ ~tip.active => tip = NoTip

\* C10: the frame's tooltip is the neutron's when the pointer is in the
\* neutron disc, else the proton's, else the electron's, else the
\* antineutrino's, else (FullConservation only) the swirl's when the pointer
\* is in the ring's band, else that of the first registered arrow segment
\* within distance 8, else none; an active tooltip has a title and a body.
C10_HoverPriority == []HoverPriority

\* the pointer is in the neutron disc, in the electron's disc, and on the
\* electron's momentum arrow: the tooltip is the neutron's
C10_Witness ==
    /\ TipResolved /\ mode = SpinAndMotion /\ mouse = OnNeutron
    /\ OverNeutron /\ OverElectron
    /\ segsOf(current, mode)[1].kind = 0 /\ NearArrow(1)
    /\ tip = TipNeutron

----------------------------------------------------------------------------
(* C11 *)

\* current is what the generator returned: the initial event, or the event a
\* regenerating input has just assigned
JustGenerated == (pc = "top" /\ nframes = 0) \/ lastKey \in ReplacingInputs

BackToBack(ev) ==
    /\ ev.antinu.vel = << -ev.electron.vel[1], -ev.electron.vel[2] >>
    /\ vlen(ev.electron.vel) = Speed
    /\ vlen(ev.antinu.vel) = Speed
    /\ ev.electron.pos = origin
    /\ ev.antinu.pos = origin

\* C11: every generated event, in every mode and for every draw, has the
\* antineutrino's velocity the exact negation of the electron's, both of
\* speed 260, and both particles at the origin.
C11_BackToBack == [](JustGenerated => BackToBack(current))

\* FullConservation just selected: a left-handed electron sent up and to the
\* right, the antineutrino down and to the left
C11_Witness ==
    /\ lastKey = "Num3" /\ mode = FullConservation /\ genFlip
    /\ current.electron.vel[1] > 0 /\ current.electron.vel[2] > 0
    /\ current.antinu.vel[1] < 0 /\ current.antinu.vel[2] < 0
    /\ current.electron.spinDir[2] < 0

----------------------------------------------------------------------------
(* C12 *)

AlignedAtGeneration ==
    (JustGenerated /\ mode # SpinOnly) =>
        /\ current.antinu.spinDir = vnorm(current.antinu.vel)
        /\ hN(current) = 1

AntinuSpinKept ==
    genFlip' = genFlip => current'.antinu.spinDir = current.antinu.spinDir

RightHanded == mode # SpinOnly => hN(current) = 1

\* the claim as stated: helicity +1 in every frame of modes 2 and 3
C12_AlwaysRightHanded ==
    /\ []AlignedAtGeneration
    /\ [][AntinuSpinKept]_vars
    /\ []RightHanded

\* while the same event lives, helicity +1 is only lost in a tick whose
\* reflection changes the antineutrino's velocity
LostByReflection ==
    (mode # SpinOnly /\ genFlip' = genFlip /\ hN(current) = 1 /\ hN(current') # 1) =>
        /\ FrameEnd /\ dt > 0
        /\ current'.antinu.vel # current.antinu.vel

\* helicity is always the sign of spin dot current velocity, zero as +1
HelicityOfNow ==
    hN(current) = IF vdot(current.antinu.spinDir, current.antinu.vel) >= 0 THEN 1 ELSE -1

\* C12 (amended): in modes SpinAndMotion and FullConservation the
\* antineutrino's spin direction equals its momentum direction at
\* generation and never changes while the event lives; its helicity, the
\* sign of spin dot current velocity, is +1 at generation and until a tick
\* in which a reflection changes its velocity, after which it can be -1.
C12_RightHandedUntilReflected ==
    /\ []AlignedAtGeneration
    /\ [][AntinuSpinKept]_vars
    /\ []HelicityOfNow
    /\ [][LostByReflection]_vars

\* SpinAndMotion: one tick of 0.02 s, then one of 1.5 s in which the
\* antineutrino is reflected off the left wall: it moves right, its spin
\* still points left, and its helicity is -1
C12_Witness ==
    /\ mode = SpinAndMotion /\ pc = "top" /\ nframes = 2
    /\ current.timeAlive = TrailInterval + 450
    /\ current.antinu.pos[1] = ArenaLeft + AntinuRadius
    /\ current.antinu.vel[1] > 0
    /\ current.antinu.spinDir = << -UNIT, 0 >>
    /\ hN(current) = -1

----------------------------------------------------------------------------
(* C13 *)

StepIgnoredWhileRunning ==
    (InputStep /\ lastKey' = "N" /\ ~paused) => stepOnce' = stepOnce

NoPendingWhileRunning == ~paused => ~stepOnce

\* C13: a single-step input polled while not paused is ignored, and no step
\* request is pending (stepOnce) whenever the simulation is not paused, so
\* that a request never carries over into a later paused period.
C13_StepOnlyWhilePaused ==
    /\ [][StepIgnoredWhileRunning]_vars
    /\ []NoPendingWhileRunning

----------------------------------------------------------------------------
(* C14 *)

DeficitRange == current.L_needed \in { -2, 0, 2, 4 }

SpinOnlyCancels ==
    mode = SpinOnly =>
        current.L_needed = current.neutronSpinSign - current.protonSpinSign

\* the claim as stated: in SpinOnly the spin signs cancel for every jitter
\* angle, angle 0 included
C14_SpinOnlyDeficit == []DeficitRange /\ []SpinOnlyCancels

SpinOnlyDeficit ==
    mode = SpinOnly =>
        IF current.electron.spinDir[2] # 0
        THEN /\ current.antinu.spinDir[2] # 0
             /\ current.L_needed = current.neutronSpinSign - current.protonSpinSign
        ELSE /\ current.antinu.spinDir[2] = 0
             /\ current.L_needed = -1 - current.protonSpinSign

\* C14 (amended): L_needed is one of -2, 0, 2, 4; in SpinOnly, when the
\* spins' y-components are non-zero their signs cancel and L_needed is
\* neutronSpinSign - protonSpinSign (0 for proton +1, 2 for proton -1); at
\* jitter angle 0 both y-components are zero, both count as +1, and
\* L_needed is -1 - protonSpinSign (-2 for proton +1, 0 for proton -1).
C14_SpinOnlyDeficitByAngle == []DeficitRange /\ []SpinOnlyDeficit

\* SpinOnly, jitter angle 0, proton +1: L_needed = -2, one tick on
C14_Witness ==
    /\ mode = SpinOnly /\ pc = "top" /\ nframes = 1 /\ dt > 0
    /\ current.electron.vel[2] = 0
    /\ current.electron.spinDir[2] = 0 /\ current.antinu.spinDir[2] = 0
    /\ current.protonSpinSign = 1
    /\ current.L_needed = -2

====
